---- MODULE Spec2Model ----
(***************************************************************************)
(* Sector heat-map dashboard: the data acquisition (get_data_with_retry,   *)
(* an LRU-memoized fetch with bounded retries and exponential backoff),    *)
(* the aggregation over all sectors (get_board_data, behind a cache with   *)
(* a time-to-live), the transform (process_data) and the part of main      *)
(* that loads, filters and decides between the advisory and the chart.     *)
(*                                                                         *)
(* Time is in seconds.  A date string is modelled by its day number:       *)
(* strftime("%Y%m%d") and strftime("%Y-%m-%d") are both injective and      *)
(* order-preserving on days, which is all the program uses them for.       *)
(***************************************************************************)
EXTENDS Integers, Sequences, FiniteSets, TLC

VARIABLES
    now,          \* wall clock, seconds (datetime.now(), advanced by time.sleep)
    lru,          \* functools.lru_cache of get_data_with_retry: entries, least recently used first
    gpc,          \* position of get_data_with_retry: "idle", "attempt", "returned", "raised"
    key,          \* arguments of the call in progress: <<symbol, start_date, end_date>>
    attempt,      \* loop variable of get_data_with_retry
    result,       \* value returned by the call (a table, i.e. a sequence of rows)
    err,          \* exception raised by the call, or NoError
    hit,          \* the call was answered by lru_cache without running the body
    waits,        \* durations handed to time.sleep during the call, in order
    errs,         \* exceptions of the remote attempts of the call, in order
    remoteCalls,  \* remote calls issued during the call
    prev,         \* the previous finished call of get_data_with_retry
    hist,         \* keys that ever returned with the value last returned, latest return last
    pc,           \* position of main / get_board_data
    runs,         \* script runs started so far
    date_range,   \* slider value of the run
    board_df,     \* directory of sector names of the pass
    idx,          \* position of the loop of get_board_data in board_df
    data_list,    \* rows accumulated by the pass
    warnings,     \* st.warning messages emitted by the pass
    snap,         \* st.cache_data entry of get_board_data
    raw_df,       \* table returned by get_board_data to main
    filtered_df,  \* table after process_data and the date filter
    run,          \* bookkeeping of the run: start time, lookups, remote calls, outer hit, error
    sect          \* per sector of the pass: times handed to the acquisition, outcome, window

vars == <<now, lru, gpc, key, attempt, result, err, hit, waits, errs, remoteCalls,
          prev, hist, pc, runs, date_range, board_df, idx, data_list,
          warnings, snap, raw_df, filtered_df, run, sect>>

acqVars == <<gpc, key, attempt, result, err, hit, waits, errs, remoteCalls>>
aggVars == <<pc, runs, date_range, board_df, idx, data_list, warnings, snap,
             raw_df, filtered_df, run, sect>>

----------------------------------------------------------------------------
(* Program constants *)

max_retries == 3
maxsize == 32
ttl == 3600
window_days == 7
default_date_range == 7
min_date_range == 1

DaySeconds == 86400

(* Bounds of the model *)

MaxProbe == 1       \* sectors the harness may request again at any time
MaxWait == 3        \* seconds of backoff the acquisition harness may spend
MaxSectors == 2     \* longest sector directory
MaxRuns == 2        \* script runs of SpecRuns

NumKeys == maxsize + MaxProbe    \* sectors of the acquisition harness
StartTime == 30 * DaySeconds

NoError == "none"
NaN == 0 - 999999999    \* not-a-number: outside the range of every number in a table
Text == NaN - 1         \* a cell of the provider that holds no number (such as "-")

----------------------------------------------------------------------------
(* Helpers *)

\* variant: the wait grows linearly with the attempt index
Pow2Linear(n) == 2 * n

RECURSIVE Pow2(_)
Pow2(n) == IF n = 0 THEN 1 ELSE 2 * Pow2(n - 1)

Strftime(t) == t \div DaySeconds

\* the arguments get_board_data passes for a sector at time t
KeyOf(symbol, t) ==
    <<symbol, Strftime(t - window_days * DaySeconds), Strftime(t)>>

RECURSIVE SelectSeq2(_, _)
SelectSeq2(s, keep) ==
    IF s = <<>> THEN <<>>
    ELSE IF keep[1] THEN <<Head(s)>> \o SelectSeq2(Tail(s), Tail(keep))
         ELSE SelectSeq2(Tail(s), Tail(keep))

----------------------------------------------------------------------------
(* Tables of the upstream provider *)

\* one daily row of a sector: date, open, close, high, low, volume, turnover
\* amount, amplitude, percent change, turnover rate
Row(date, volume, pct) ==
    [date |-> date, open |-> 10, close |-> 11, high |-> 12, low |-> 9,
     volume |-> volume, amount |-> 300000000, amplitude |-> 3, pct |-> pct,
     turnover |-> 3]

Last(df) == df[Len(df)]

----------------------------------------------------------------------------
(* functools.lru_cache(maxsize=32) *)

CacheKeys(c) == {c[i].key : i \in 1..Len(c)}

CacheIndex(c, k) == CHOOSE i \in 1..Len(c) : c[i].key = k

CacheValue(c, k) == c[CacheIndex(c, k)].value

Without(c, i) == [j \in 1..(Len(c) - 1) |-> IF j < i THEN c[j] ELSE c[j + 1]]

\* variant: a hit leaves the order alone (first in, first out)
CacheTouchFifo(c, k) == c

\* a hit moves the entry to the most recently used end
CacheTouch(c, k) ==
    LET i == CacheIndex(c, k) IN Append(Without(c, i), c[i])

\* variant: the result is not kept
CacheStoreNothing(c, k, v) == c

\* a store evicts the least recently used entry when the cache is full
CacheStore(c, k, v) ==
    LET e == [key |-> k, value |-> v]
    IN IF Len(c) >= maxsize THEN Append(Tail(c), e) ELSE Append(c, e)

----------------------------------------------------------------------------
(* get_data_with_retry *)

\* the decorated function is called: lru_cache answers or the body starts
GetDataCall(k) ==
    /\ gpc = "idle"
    /\ key' = k
    /\ waits' = <<>>
    /\ errs' = <<>>
    /\ remoteCalls' = 0
    /\ err' = NoError
    /\ attempt' = 0
    /\ IF k \in CacheKeys(lru)
       THEN /\ hit' = TRUE
            /\ result' = CacheValue(lru, k)
            /\ lru' = CacheTouch(lru, k)
            /\ gpc' = "returned"
       ELSE /\ hit' = FALSE
            /\ result' = <<>>
            /\ lru' = lru
            /\ gpc' = "attempt"
    /\ UNCHANGED <<now, prev, hist>>

\* the remote call of the current attempt returns df
RemoteOk(df) ==
    /\ gpc = "attempt"
    /\ remoteCalls' = remoteCalls + 1
    /\ result' = df
    /\ lru' = CacheStore(lru, key, df)
    /\ gpc' = "returned"
    /\ UNCHANGED <<now, key, attempt, err, hit, waits, errs, prev, hist>>
    /\ UNCHANGED aggVars

\* the exception object raised by the remote call of an attempt
RemoteError(n) == [type |-> "RemoteError", attempt |-> n]

\* variant: the last failure is remembered in the cache
RemoteFailCached ==
    /\ gpc = "attempt"
    /\ remoteCalls' = remoteCalls + 1
    /\ errs' = Append(errs, RemoteError(attempt))
    /\ IF attempt = max_retries - 1
       THEN /\ err' = RemoteError(attempt)
            /\ gpc' = "raised"
            /\ lru' = CacheStore(lru, key, <<>>)
            /\ UNCHANGED <<now, waits, attempt>>
       ELSE /\ waits' = Append(waits, Pow2(attempt))
            /\ now' = now + Pow2(attempt)
            /\ attempt' = attempt + 1
            /\ UNCHANGED <<err, gpc, lru>>
    /\ UNCHANGED <<key, result, hit, prev, hist>>
    /\ UNCHANGED aggVars

\* variant: the backoff wait also follows the last failed attempt
RemoteFailSleepFirst ==
    /\ gpc = "attempt"
    /\ remoteCalls' = remoteCalls + 1
    /\ errs' = Append(errs, RemoteError(attempt))
    /\ waits' = Append(waits, Pow2(attempt))
    /\ now' = now + Pow2(attempt)
    /\ IF attempt = max_retries - 1
       THEN /\ err' = RemoteError(attempt)
            /\ gpc' = "raised"
            /\ UNCHANGED attempt
       ELSE /\ attempt' = attempt + 1
            /\ UNCHANGED <<err, gpc>>
    /\ UNCHANGED <<lru, key, result, hit, prev, hist>>
    /\ UNCHANGED aggVars

\* the remote call of the current attempt raises
RemoteFail ==
    /\ gpc = "attempt"
    /\ remoteCalls' = remoteCalls + 1
    /\ errs' = Append(errs, RemoteError(attempt))
    /\ IF attempt = max_retries - 1
       THEN /\ err' = RemoteError(attempt)
            /\ gpc' = "raised"
            /\ UNCHANGED <<now, waits, attempt>>
       ELSE /\ waits' = Append(waits, Pow2(attempt))
            /\ now' = now + Pow2(attempt)
            /\ attempt' = attempt + 1
            /\ UNCHANGED <<err, gpc>>
    /\ UNCHANGED <<lru, key, result, hit, prev, hist>>
    /\ UNCHANGED aggVars

\* the caller takes the outcome of the finished call: the locals of the call
\* are gone, the key is noted as returned
Retire ==
    /\ gpc' = "idle"
    /\ key' = <<0, 0, 0>>
    /\ attempt' = 0
    /\ result' = <<>>
    /\ err' = NoError
    /\ hit' = FALSE
    /\ waits' = <<>>
    /\ errs' = <<>>
    /\ remoteCalls' = 0
    /\ hist' = IF gpc = "returned"
               THEN Append(IF key \in CacheKeys(hist)
                           THEN Without(hist, CacheIndex(hist, key)) ELSE hist,
                           [key |-> key, value |-> result])
               ELSE hist

----------------------------------------------------------------------------
(* Acquisition harness: a caller that requests sectors one after another *)

HarnessRow == Row(Strftime(StartTime), 20000, 2)

HarnessWindows(k) ==
    IF k[1] <= MaxProbe THEN {<<>>, <<HarnessRow>>} ELSE {<<HarnessRow>>}

Stored == {k[1] : k \in CacheKeys(hist)}

\* the first sector that never returned
NextFresh ==
    LET st == Stored
        fresh == (1..NumKeys) \ st
    IN {s \in fresh : \A t \in fresh : s <= t}

Call(s) ==
    /\ pc = "harness"
    /\ GetDataCall(KeyOf(s, now))
    /\ UNCHANGED aggVars

Return ==
    /\ pc = "harness"
    /\ gpc \in {"returned", "raised"}
    /\ Retire
    /\ prev' = [key |-> key, outcome |-> gpc, remote |-> remoteCalls,
                oks |-> remoteCalls - Len(errs), valid |-> TRUE]
    /\ UNCHANGED <<now, lru>>
    /\ UNCHANGED aggVars

InitCommon ==
    /\ now = StartTime
    /\ lru = <<>>
    /\ gpc = "idle"
    /\ key = <<0, 0, 0>>
    /\ attempt = 0
    /\ result = <<>>
    /\ err = NoError
    /\ hit = FALSE
    /\ waits = <<>>
    /\ errs = <<>>
    /\ remoteCalls = 0
    /\ prev = [key |-> <<0, 0, 0>>, outcome |-> "none", remote |-> 0, oks |-> 0,
               valid |-> FALSE]
    /\ hist = <<>>
    /\ runs = 0
    /\ date_range = default_date_range
    /\ board_df = <<>>
    /\ idx = 1
    /\ data_list = <<>>
    /\ warnings = <<>>
    /\ snap = [valid |-> FALSE, value |-> <<>>, warnings |-> <<>>, stored |-> 0,
               called |-> 0]
    /\ raw_df = <<>>
    /\ filtered_df = <<>>
    /\ run = [start |-> 0, lookups |-> 0, remote |-> 0, hit |-> FALSE,
              error |-> NoError]
    /\ sect = <<>>

InitAcq == InitCommon /\ pc = "harness"

NextAcq ==
    \/ \E s \in (1..MaxProbe) \cup NextFresh : Call(s)
    \/ \E df \in HarnessWindows(key) : RemoteOk(df)
    \/ /\ key[1] <= MaxProbe
       /\ attempt < max_retries - 1 => now + Pow2(attempt) <= StartTime + MaxWait
       /\ RemoteFail
    \/ Return

SpecAcq == InitAcq /\ [][NextAcq]_vars

----------------------------------------------------------------------------
(* process_data and the date filter of main *)

\* pd.to_numeric(errors='coerce'): a cell that is no number becomes NaN
ToNumeric(v) == IF v = Text THEN NaN ELSE v

Mul(a, b) == IF a = NaN \/ b = NaN THEN NaN ELSE a * b

\* true division; the tables of the model hold multiples of the divisor
Div(a, b) == IF a = NaN THEN NaN ELSE a \div b

Greater(a, b) == a # NaN /\ a > b

Derive(r) ==
    LET n == [f \in DOMAIN r |->
                 IF f \in {"open", "close", "high", "low", "volume", "amount",
                           "amplitude", "pct", "turnover"}
                 THEN ToNumeric(r[f]) ELSE r[f]]
    IN [f \in DOMAIN r \cup {"intensity", "amount_yi", "volume_wan"} |->
           CASE f = "intensity" -> Mul(n.pct, n.turnover)
             [] f = "amount_yi" -> Div(n.amount, 100000000)
             [] f = "volume_wan" -> Div(n.volume, 10000)
             [] f = "pct" -> Mul(n.pct, 100)
             [] OTHER -> n[f]]

\* selecting the numeric columns of a table built from no rows raises KeyError
ProcessRaises(df) == df = <<>>

process_data(df) ==
    LET d == [i \in 1..Len(df) |-> Derive(df[i])]
    IN SelectSeq2(d, [i \in 1..Len(d) |-> d[i].pct # NaN /\ Greater(d[i].volume, 0)])

DateFilter(df, t, days) ==
    SelectSeq2(df, [i \in 1..Len(df) |-> df[i].date >= Strftime(t - days * DaySeconds)])

----------------------------------------------------------------------------
(* get_board_data behind st.cache_data(ttl=3600), and main *)

\* variant: the time-to-live is taken in minutes
SnapshotFreshMinutes(entry, t) == entry.valid /\ t < entry.stored + ttl \div 60

\* st.cache_data: the entry is served until ttl seconds after it was stored
SnapshotFresh(entry, t) == entry.valid /\ t < entry.stored + ttl

Tag(row, name) ==
    [f \in DOMAIN row \cup {"name"} |-> IF f = "name" THEN name ELSE row[f]]

Warn(name, msg) == [name |-> name, msg |-> msg]

\* a script run starts d seconds after the previous one ended and calls
\* get_board_data: the snapshot is served or the pass begins
MainCall(d, dr) ==
    /\ pc \in {"idle", "advisory", "chart", "crashed"}
    /\ runs < MaxRuns
    /\ runs' = runs + 1
    /\ now' = now + d
    /\ date_range' = dr
    /\ filtered_df' = <<>>
    /\ IF SnapshotFresh(snap, now')
       THEN /\ raw_df' = snap.value
            /\ warnings' = snap.warnings
            /\ pc' = "process"
            /\ run' = [start |-> now', lookups |-> 0, remote |-> 0, hit |-> TRUE,
                       error |-> NoError]
       ELSE /\ raw_df' = <<>>
            /\ warnings' = <<>>
            /\ pc' = "dir"
            /\ run' = [start |-> now', lookups |-> 0, remote |-> 0, hit |-> FALSE,
                       error |-> NoError]
    /\ UNCHANGED <<lru, prev, hist, board_df, idx, data_list, snap, sect>>
    /\ UNCHANGED acqVars

\* ak.stock_board_industry_name_em() returns the directory
DirLookup(names) ==
    /\ pc = "dir"
    /\ board_df' = names
    /\ data_list' = <<>>
    /\ idx' = 1
    /\ sect' = [i \in 1..Len(names) |->
                  [handed |-> 0, outcome |-> "none", window |-> <<>>, rows |-> 0]]
    /\ run' = [run EXCEPT !.lookups = @ + 1]
    /\ pc' = "loop"
    /\ UNCHANGED <<now, lru, prev, hist, runs, date_range, warnings, snap,
                   raw_df, filtered_df>>
    /\ UNCHANGED acqVars

\* the directory lookup raises: nothing in get_board_data or main catches it
DirFail ==
    /\ pc = "dir"
    /\ run' = [run EXCEPT !.lookups = @ + 1, !.error = "DirectoryError"]
    /\ pc' = "crashed"
    /\ UNCHANGED <<now, lru, prev, hist, runs, date_range, board_df, idx,
                   data_list, warnings, snap, raw_df, filtered_df, sect>>
    /\ UNCHANGED acqVars

\* the loop hands the next sector to get_data_with_retry
BoardFetch ==
    /\ pc = "loop"
    /\ idx <= Len(board_df)
    /\ GetDataCall(KeyOf(board_df[idx], now))
    /\ sect' = [sect EXCEPT ![idx].handed = @ + 1]
    /\ pc' = "fetch"
    /\ UNCHANGED <<runs, date_range, board_df, idx, data_list, warnings, snap, raw_df,
                   filtered_df, run>>

\* variant: a window without rows is skipped without a warning
BoardTakeSilent ==
    /\ pc = "fetch"
    /\ gpc = "returned"
    /\ IF Len(result) = 0
       THEN /\ warnings' = warnings
            /\ data_list' = data_list
            /\ sect' = [sect EXCEPT ![idx].outcome = "returned", ![idx].window = result]
       ELSE /\ data_list' = Append(data_list, Tag(Last(result), board_df[idx]))
            /\ warnings' = warnings
            /\ sect' = [sect EXCEPT ![idx].outcome = "returned", ![idx].window = result,
                                    ![idx].rows = @ + 1]
    /\ Retire
    /\ run' = [run EXCEPT !.remote = @ + remoteCalls]
    /\ idx' = idx + 1
    /\ pc' = "loop"
    /\ UNCHANGED <<now, lru, prev, runs, date_range, board_df, snap, raw_df, filtered_df>>

\* the fetch returned: the last row is tagged and kept; df.iloc[-1] of a table
\* without rows raises IndexError inside the try block
BoardTake ==
    /\ pc = "fetch"
    /\ gpc = "returned"
    /\ IF Len(result) = 0
       THEN /\ warnings' = Append(warnings, Warn(board_df[idx], "IndexError"))
            /\ data_list' = data_list
            /\ sect' = [sect EXCEPT ![idx].outcome = "returned", ![idx].window = result]
       ELSE /\ data_list' = Append(data_list, Tag(Last(result), board_df[idx]))
            /\ warnings' = warnings
            /\ sect' = [sect EXCEPT ![idx].outcome = "returned", ![idx].window = result,
                                    ![idx].rows = @ + 1]
    /\ Retire
    /\ run' = [run EXCEPT !.remote = @ + remoteCalls]
    /\ idx' = idx + 1
    /\ pc' = "loop"
    /\ UNCHANGED <<now, lru, prev, runs, date_range, board_df, snap, raw_df, filtered_df>>

\* variant: the exception of the fetch leaves get_board_data
BoardCatchAbort ==
    /\ pc = "fetch"
    /\ gpc = "raised"
    /\ sect' = [sect EXCEPT ![idx].outcome = "raised"]
    /\ Retire
    /\ run' = [run EXCEPT !.remote = @ + remoteCalls, !.error = err.type]
    /\ pc' = "crashed"
    /\ UNCHANGED <<now, lru, prev, runs, date_range, board_df, idx, data_list, warnings,
                   snap, raw_df, filtered_df>>

\* variant: after the warning the same sector is tried again
BoardCatchAgain ==
    /\ pc = "fetch"
    /\ gpc = "raised"
    /\ warnings' = Append(warnings, Warn(board_df[idx], err))
    /\ sect' = sect
    /\ Retire
    /\ run' = [run EXCEPT !.remote = @ + remoteCalls]
    /\ idx' = idx
    /\ pc' = "loop"
    /\ UNCHANGED <<now, lru, prev, runs, date_range, board_df, data_list, snap, raw_df,
                   filtered_df>>

\* the fetch raised after its last attempt: warn and continue
BoardCatch ==
    /\ pc = "fetch"
    /\ gpc = "raised"
    /\ warnings' = Append(warnings, Warn(board_df[idx], err))
    /\ sect' = [sect EXCEPT ![idx].outcome = "raised"]
    /\ Retire
    /\ run' = [run EXCEPT !.remote = @ + remoteCalls]
    /\ idx' = idx + 1
    /\ pc' = "loop"
    /\ UNCHANGED <<now, lru, prev, runs, date_range, board_df, data_list, snap, raw_df,
                   filtered_df>>

\* the loop is over: the table is returned, st.cache_data stores it and the
\* locals of get_board_data are gone
BoardReturn ==
    /\ pc = "loop"
    /\ idx > Len(board_df)
    /\ raw_df' = data_list
    /\ snap' = [valid |-> TRUE, value |-> data_list, warnings |-> warnings,
                stored |-> now, called |-> run.start]
    /\ pc' = "process"
    /\ board_df' = <<>>
    /\ idx' = 1
    /\ data_list' = <<>>
    /\ sect' = <<>>
    /\ UNCHANGED <<now, lru, prev, hist, runs, date_range, warnings, filtered_df, run>>
    /\ UNCHANGED acqVars

\* main: process_data, the date filter and the check for an empty table
Process ==
    /\ pc = "process"
    /\ IF ProcessRaises(raw_df)
       THEN /\ pc' = "crashed"
            /\ run' = [run EXCEPT !.error = "KeyError"]
            /\ filtered_df' = filtered_df
       ELSE /\ filtered_df' = DateFilter(process_data(raw_df), now, date_range)
            /\ pc' = IF filtered_df' = <<>> THEN "advisory" ELSE "chart"
            /\ run' = run
    /\ UNCHANGED <<now, lru, prev, hist, runs, date_range, board_df, idx,
                   data_list, warnings, snap, raw_df, sect>>
    /\ UNCHANGED acqVars

----------------------------------------------------------------------------
(* Environment of the dashboard *)

Sectors == 1..MaxSectors

\* the directory lists up to MaxSectors names, in any order; the code does
\* not rely on the names being distinct
Directories == UNION {[1..n -> Sectors] : n \in 0..MaxSectors}

\* directories of the specification with repeated script runs
ShortDirectories == {names \in Directories : Len(names) <= 1}

Today == Strftime(now)

Windows ==
    {<<>>,
     <<Row(Today, 20000, 2)>>,
     <<Row(Today - 3, 20000, 1), Row(Today, 20000, 2)>>,
     <<Row(Today - 3, 20000, 1)>>,
     <<Row(Today - 1, 20000, 2), Row(Today, 0, 0)>>,
     <<Row(Today, 20000, Text)>>}

Delays == {ttl - 2, ttl, DaySeconds}

DateRanges == {min_date_range, default_date_range}

Init == InitCommon /\ pc = "idle"

\* the script is started
FirstRun == runs = 0 /\ \E dr \in DateRanges : MainCall(0, dr)

\* the user touches a control some time after a run ended: the script runs again
Rerun == runs > 0 /\ \E d \in Delays, dr \in DateRanges : MainCall(d, dr)

\* one script run over any directory
Next ==
    \/ FirstRun
    \/ \E names \in Directories : DirLookup(names)
    \/ DirFail
    \/ BoardFetch
    \/ \E df \in Windows : RemoteOk(df)
    \/ RemoteFail
    \/ BoardTake
    \/ BoardCatch
    \/ BoardReturn
    \/ Process

Spec == Init /\ [][Next]_vars

\* up to MaxRuns script runs over directories of at most one sector
NextRuns ==
    \/ FirstRun
    \/ Rerun
    \/ \E names \in ShortDirectories : DirLookup(names)
    \/ DirFail
    \/ BoardFetch
    \/ \E df \in Windows : RemoteOk(df)
    \/ RemoteFail
    \/ BoardTake
    \/ BoardCatch
    \/ BoardReturn
    \/ Process

SpecRuns == Init /\ [][NextRuns]_vars

----------------------------------------------------------------------------
(* Properties of the acquisition, checked under SpecAcq *)

Finished == gpc \in {"returned", "raised"}

SecondOfPair == Finished /\ prev.valid /\ prev.key = key

Oks == remoteCalls - Len(errs)

\* C1 as stated: two calls of get_data_with_retry with the same key issue at
\* most one remote call in total, whatever the outcomes of the remote call.
C1_AtMostOneRemoteCall ==
    SecondOfPair => prev.remote + remoteCalls <= 1

\* C1 amended: of two consecutive calls with the same key at most one remote
\* call succeeds in total, the second call issues no remote call once the
\* first has returned, and every call stays within max_retries remote calls;
\* failed attempts are repeated and a call that raised is not memoized.
C1_AtMostOneSuccessfulRemoteCall ==
    /\ remoteCalls <= max_retries
    /\ SecondOfPair =>
          /\ prev.oks + Oks <= 1
          /\ prev.outcome = "returned" => remoteCalls = 0 /\ gpc = "returned"

C1_Witness ==
    /\ SecondOfPair
    /\ prev.outcome = "returned"
    /\ prev.remote = 2
    /\ gpc = "returned"
    /\ hit

InCall == gpc # "idle"

Returned == CacheKeys(hist)

\* distinct other keys that returned since key k last returned
Since(k) == Len(hist) - CacheIndex(hist, k)

Memoized ==
    /\ gpc = "returned"
    /\ hit
    /\ remoteCalls = 0
    /\ result = CacheValue(hist, key)

\* C2 as stated: once a key has returned successfully, every later call with
\* that key is answered from the cache without a remote call, after any
\* number of calls for other keys (no TTL, no eviction).
C2_NeverEvicted ==
    (InCall /\ key \in Returned) => Memoized

\* C2 amended: once a key has returned successfully, a later call with that
\* key returns the same cached result without a remote call as long as fewer
\* than maxsize (32) distinct other keys have returned since the key last
\* returned; there is no TTL, but the least recently used entry is evicted
\* when a key is stored into a full cache.
C2_CachedWhileRecent ==
    (/\ InCall
     /\ key \in Returned
     /\ Since(key) < maxsize) => Memoized

C2_Witness ==
    /\ InCall
    /\ key \in Returned
    /\ Since(key) = maxsize - 1
    /\ Memoized
    /\ Len(result) > 0

OnlySuccessStored ==
    CacheKeys(lru) \subseteq
        Returned \cup (IF gpc = "returned" /\ ~hit THEN {key} ELSE {})

\* C9: a call that ends by raising leaves the per-request cache unchanged and
\* stores nothing for its key, so the next call with the same key runs the
\* body and performs remote attempts again (at least one, at most
\* max_retries); only successful returns are ever stored.
C9_RaiseNotCached ==
    /\ [][/\ (gpc = "attempt" /\ gpc' = "raised") =>
                (lru' = lru /\ key \notin CacheKeys(lru'))
          /\ (gpc = "idle" /\ gpc' # "idle" /\ prev.outcome = "raised"
                /\ key' = prev.key) =>
                (gpc' = "attempt" /\ ~hit' /\ attempt' = 0 /\ lru' = lru)]_vars
    /\ [](OnlySuccessStored)
    /\ []((SecondOfPair /\ prev.outcome = "raised") =>
             (remoteCalls >= 1 /\ remoteCalls <= max_retries))

C9_Witness ==
    /\ SecondOfPair
    /\ prev.outcome = "raised"
    /\ prev.remote = max_retries
    /\ gpc = "returned"
    /\ remoteCalls = 1
    /\ key \in CacheKeys(lru)

----------------------------------------------------------------------------
(* Properties of the retry loop, checked under Spec *)

\* C3: when the remote call fails exactly m < max_retries times and then
\* succeeds, get_data_with_retry returns that result after m + 1 remote
\* attempts and m waits of 1, 2, 4, ..., 2^(m-1) time units.
C3_BackoffThenSuccess ==
    /\ gpc = "attempt" =>
          /\ attempt = Len(errs)
          /\ attempt < max_retries
          /\ remoteCalls = Len(errs)
          /\ Len(waits) = Len(errs)
    /\ (gpc = "returned" /\ ~hit) =>
          LET m == Len(errs)
          IN /\ m < max_retries
             /\ remoteCalls = m + 1
             /\ waits = [i \in 1..m |-> 2 ^ (i - 1)]
             /\ key \in CacheKeys(lru)
             /\ CacheValue(lru, key) = result

C3_Witness ==
    /\ gpc = "returned"
    /\ ~hit
    /\ Len(errs) = max_retries - 1
    /\ waits = <<1, 2>>
    /\ Len(result) = 2

\* C4: when every attempt fails, get_data_with_retry makes exactly
\* max_retries remote attempts, waits max_retries - 1 times (not after the
\* last failure), and raises the error of the last attempt; it returns no
\* value.
C4_ExhaustedRaisesLast ==
    /\ (InCall /\ Len(errs) = max_retries) => gpc = "raised"
    /\ gpc = "raised" =>
          /\ remoteCalls = max_retries
          /\ Len(errs) = max_retries
          /\ Len(waits) = max_retries - 1
          /\ err = errs[max_retries]
          /\ err.attempt = max_retries - 1
          /\ ~hit
          /\ result = <<>>
          /\ key \notin CacheKeys(lru)

C4_Witness ==
    /\ pc = "fetch"
    /\ gpc = "raised"
    /\ err = RemoteError(2)
    /\ waits = <<1, 2>>

----------------------------------------------------------------------------
(* Properties of the aggregation, checked under Spec *)

InPass == pc \in {"loop", "fetch"}

PassOver == pc = "loop" /\ idx > Len(board_df)

Processed == 1..(idx - 1)

RaisedSectors == {i \in Processed : sect[i].outcome = "raised"}

EmptySectors == {i \in Processed : sect[i].outcome = "returned" /\ sect[i].window = <<>>}

KeptSectors == Processed \ (RaisedSectors \cup EmptySectors)

Rank(S, i) == Cardinality({j \in S : j <= i})

IsPrefix(a, b) == Len(a) <= Len(b) /\ \A i \in 1..Len(a) : a[i] = b[i]

\* C5 as stated: with K sectors whose fetch fails after its retries, the pass
\* returns exactly N - K rows and emits exactly K warnings.
C5_RowsAreNMinusFailedFetches ==
    PassOver =>
        /\ Len(data_list) = Len(board_df) - Cardinality(RaisedSectors)
        /\ Len(warnings) = Cardinality(RaisedSectors)

\* C5 amended: with K the number of sectors whose fetch fails after its
\* retries or returns a window without rows, one pass of get_board_data
\* completes without raising, returns exactly N - K rows, each tagged with
\* the name of its sector, and emits exactly K warnings; a failing sector
\* never aborts the pass nor removes a row, and with K = N the table is empty.
C5_RowsAreNMinusSkipped ==
    /\ [](InPass =>
            /\ Len(data_list) = Cardinality(KeptSectors)
            /\ Len(warnings) = Cardinality(RaisedSectors \cup EmptySectors)
            /\ Len(data_list) + Len(warnings) = idx - 1
            /\ \A i \in KeptSectors :
                  data_list[Rank(KeptSectors, i)].name = board_df[i]
            /\ \A i \in RaisedSectors \cup EmptySectors :
                  warnings[Rank(RaisedSectors \cup EmptySectors, i)].name = board_df[i])
    /\ [][InPass =>
            /\ pc' \in {"loop", "fetch", "process"}
            /\ pc' # "process" => IsPrefix(data_list, data_list')
            /\ pc' = "process" => (PassOver /\ raw_df' = data_list
                                    /\ snap'.value = data_list)]_vars

C5_Witness ==
    /\ PassOver
    /\ Len(board_df) = 2
    /\ RaisedSectors = {1}
    /\ KeptSectors = {2}
    /\ Len(data_list) = 1
    /\ data_list[1].name = board_df[2]

\* C6: whenever the filtered table is empty after all sectors were processed,
\* also when every fetch failed and the aggregated table has no rows, the run
\* of main ends in the advisory state and never in an uncaught error of the
\* transform or the filter.
C6_EmptyEndsInAdvisory ==
    /\ ~(pc = "crashed" /\ run.error = "KeyError")
    /\ (pc \in {"advisory", "chart"} /\ filtered_df = <<>>) => pc = "advisory"

IsMainCall == runs' = runs + 1

\* C7 (checked under SpecRuns): a call of get_board_data made less than ttl (3600) seconds after the
\* call that computed the snapshot returns that snapshot and triggers no
\* directory lookup and no sector fetch; only a call made ttl seconds or more
\* after it recomputes the snapshot.
C7_SnapshotServedWithinTtl ==
    /\ [][IsMainCall =>
            /\ (snap.valid /\ now' - snap.called < ttl) =>
                  (pc' = "process" /\ run'.hit /\ raw_df' = snap.value /\ snap' = snap)
            /\ pc' = "dir" => (~snap.valid \/ now' - snap.called >= ttl)]_vars
    /\ [](run.hit =>
            /\ run.lookups = 0
            /\ run.remote = 0
            /\ pc \notin {"dir", "loop", "fetch"}
            /\ raw_df = snap.value)

C7_Witness ==
    /\ run.hit
    /\ pc = "process"
    /\ snap.stored = snap.called + 1
    /\ run.start - snap.called = ttl - 1
    /\ Len(raw_df) = 1

Terminal == {"SUCCESS", "FAILED"}

\* the state of sector i of the directory in the current pass
SectorState(i) ==
    IF i < idx
    THEN IF i \in KeptSectors THEN "SUCCESS" ELSE "FAILED"
    ELSE IF i > idx \/ pc # "fetch" THEN "PENDING"
    ELSE CASE gpc = "attempt" -> IF attempt = 0 THEN "PENDING" ELSE "RETRY"
           [] gpc = "returned" -> IF Len(result) > 0 THEN "SUCCESS" ELSE "FAILED"
           [] gpc = "raised" -> "FAILED"
           [] OTHER -> "PENDING"

\* C8: within one pass a sector goes PENDING -> RETRY* -> SUCCESS or FAILED
\* and never re-enters PENDING once terminal; each sector is handed to the
\* acquisition exactly once, a SUCCESS sector contributes one row, the last
\* row of its window, and a FAILED sector contributes no row.
C8_SectorHandledOnce ==
    /\ [][(InPass /\ InPass') =>
            \A i \in 1..Len(board_df) :
               /\ SectorState(i) \in Terminal => SectorState(i)' = SectorState(i)
               /\ SectorState(i) = "RETRY" => SectorState(i)' # "PENDING"]_vars
    /\ [](InPass =>
            \A i \in 1..Len(board_df) :
               /\ sect[i].handed = IF i < idx \/ (i = idx /\ pc = "fetch") THEN 1 ELSE 0
               /\ sect[i].rows = IF i \in KeptSectors THEN 1 ELSE 0
               /\ i \in KeptSectors =>
                     data_list[Rank(KeptSectors, i)] =
                        Tag(Last(sect[i].window), board_df[i]))
    /\ [](PassOver =>
            /\ \A i \in 1..Len(board_df) : sect[i].handed = 1 /\ SectorState(i) \in Terminal
            /\ Len(data_list) = Cardinality(KeptSectors))

C8_Witness ==
    /\ PassOver
    /\ Len(board_df) = 2
    /\ SectorState(1) = "SUCCESS"
    /\ Len(sect[1].window) = 2
    /\ SectorState(2) = "FAILED"
    /\ sect[2].outcome = "raised"

\* C10: a sector whose fetch succeeds with a window of zero rows is handled
\* like a failed sector: no row, one warning for it, the pass continues with
\* the next sector; the empty result stays in the per-request cache.
C10_EmptyWindowSkipped ==
    [][(pc = "fetch" /\ gpc = "returned" /\ result = <<>> /\ pc' # pc) =>
          /\ pc' = "loop"
          /\ idx' = idx + 1
          /\ board_df' = board_df
          /\ data_list' = data_list
          /\ warnings' = Append(warnings, Warn(board_df[idx], "IndexError"))
          /\ key \in CacheKeys(lru')
          /\ CacheValue(lru', key) = <<>>]_vars

C10_Witness ==
    /\ pc = "fetch"
    /\ idx = 2
    /\ EmptySectors = {1}
    /\ Len(warnings) = 1
    /\ board_df[2] = board_df[1]
    /\ gpc = "returned"
    /\ hit
    /\ result = <<>>

====
